---- MODULE Spec2Model ----
(***************************************************************************)
(* VeggiTrade: the portfolio ledger of src/App.tsx (handleTrade,           *)
(* handleCancelOrder, the setInterval simulation tick with its limit-order  *)
(* matching pass) together with the request validation of                   *)
(* src/components/TradePanel.tsx (handleSubmit).                            *)
(*                                                                          *)
(* Money is a JavaScript number, i.e. a binary floating-point value.  It is *)
(* modelled as an integer count of cents that every arithmetic operation    *)
(* rounds to Prec significant bits, round-to-nearest, ties-to-even, which   *)
(* is what IEEE-754 does with 53 bits.  Quantities come from parseInt and   *)
(* stay far below 2^53, so they are exact integers.                         *)
(*                                                                          *)
(* React scheduling (concurrent root): a state update made inside a        *)
(* discrete event handler (form submit, click) is rendered, and the passive *)
(* effects of that render are flushed, synchronously before the next event  *)
(* or timer runs, so a handler's own commit refreshes the handlers'         *)
(* closures and portfolioRef.  An update made inside the timer callback is  *)
(* rendered by a later task (Render) and portfolioRef is written by the     *)
(* passive effect scheduled after that render (Effect); events and timers   *)
(* may run in between.                                                      *)
(*                                                                          *)
(* The simulation effect owns the setInterval timer: React runs its cleanup *)
(* (clearInterval) and creates a new timer when `user` changes, and runs    *)
(* the cleanup at unmount.  A timer is named by the `user` its callback     *)
(* closes over.  updatePortfolio is asynchronous: its promise settles,      *)
(* resolved or rejected, in a step of its own.  handleTrade awaits its     *)
(* save with isTrading raised, and the submit button is disabled meanwhile. *)
(*                                                                          *)
(* Specifications: Spec is the trading session; SpecSavesSettle is Spec     *)
(* with every save settling in the end; SpecLargeOrders is the trading      *)
(* session with orders of several units; SpecSubscription is the session    *)
(* of a user whose ledger arrives through the Firestore subscription.       *)
(***************************************************************************)
EXTENDS Integers, Sequences, FiniteSets, TLC

\* ---- bounds of the model ------------------------------------------------
\* number of generateId() calls made for requests (orders placed, market
\* transactions recorded); the matching passes may record as many fills again
MaxId == 2
\* significant bits of the modelled floating-point format (53 in IEEE-754)
Prec == 15
\* capacity of an asset's rolling price history (HISTORY_POINTS, 50 in the program)
HISTORY_POINTS == 2

\* ---- program constants (money in cents) ---------------------------------
INITIAL_CASH == 10000 * 100
\* two of the five INITIAL_ASSETS, with their initial_price
AssetIds == {"TOM", "CAR"}
InitialPrice == [TOM |-> 1050, CAR |-> 4520]
\* the price levels the random walk may visit (each within 2% of the others)
PriceLevels == [TOM |-> {1030, 1050}, CAR |-> {4520}]
\* volatility 0.02, in percent
VolatilityPct == 2
\* price floor 0.01
PriceFloor == 1

\* ---- request inputs -----------------------------------------------------
\* parseInt(quantity) || 0
Qtys == {0, 1, 1000}
\* parseFloat(limitPrice) || 0
LimitPrices == {0, 1040}
\* the limit price handed to onTrade: undefined (here 0) for a market order
LimitInputs(orderType) == IF orderType = "LIMIT" THEN LimitPrices ELSE {0}
Sides == {"BUY", "SELL"}
OrderTypes == {"MARKET", "LIMIT"}

NoUser == "null"
Uid == "uid"
NoError == "null"
None == [kind |-> "none"]

\* ---- floating-point arithmetic ------------------------------------------
RECURSIVE Pow2(_)
Pow2(n) == IF n = 0 THEN 1 ELSE 2 * Pow2(n - 1)

\* 2^Prec: significands are the integers below it
Significand == Pow2(Prec)

\* unit in the last place of a magnitude n: the least power of two u with n < Significand * u
RECURSIVE UlpFrom(_, _)
UlpFrom(n, u) == IF n < Significand * u THEN u ELSE UlpFrom(n, 2 * u)
Ulp(n) == UlpFrom(n, 1)

\* nearest integer to n/d (n >= 0, d > 0), ties to even
RoundDiv(n, d) ==
  LET q == n \div d
      r == n % d
  IN IF 2 * r < d THEN q
     ELSE IF 2 * r > d THEN q + 1
     ELSE IF q % 2 = 0 THEN q ELSE q + 1

FlNat(n) == LET u == Ulp(n) IN u * RoundDiv(n, u)
\* rounding of an exact value to the floating-point format
Fl(x) == IF x < 0 THEN 0 - FlNat(0 - x) ELSE FlNat(x)

FAdd(a, b) == Fl(a + b)
FSub(a, b) == Fl(a - b)
FMul(a, b) == Fl(a * b)
\* a / b for a >= 0, b > 0; the cent is the finest representable step
FDiv(a, b) == LET u == Ulp(a \div b) IN u * RoundDiv(a, b * u)

\* ---- state --------------------------------------------------------------
VARIABLES
  user,            \* App state `user`: NoUser or the signed-in account
  authPending,     \* authenticateUser() has not resolved yet
  assets,          \* App state `assets`: current_price per asset
  selectedAssetId, \* App state `selectedAssetId`
  portfolio,       \* App state `portfolio`: the committed ledger
  rendered,        \* what the last render captured in the handlers' closures
  portfolioRef,    \* portfolioRef.current
  error,           \* TradePanel state `error`
  nextId,          \* next value of generateId()
  saveCount,       \* number of updatePortfolio calls issued
  lastSave,        \* the ledger passed to the latest updatePortfolio call
  saveStatus,      \* the latest updatePortfolio call: "idle", "pending" or "failed"
  tradeAwaits,     \* the updatePortfolio call handleTrade awaits: "none", the "latest" or an "earlier" one
  history,         \* App state `assets`: the price of each history point, oldest first
  timers,          \* the active setInterval timers, each named by the `user` its callback closes over
  mounted,         \* App is mounted
  staleCommit,     \* history: the latest commit was computed from a ledger other than the committed one
  prePlacement,    \* history: the ledger the latest commit was applied to, when that commit placed a limit order
  fillCount,       \* history: fill events per order id
  cancelCount,     \* history: cancel events per order id
  tornDown         \* history: the timers whose simulation effect has been torn down

histVars == <<staleCommit, prePlacement, fillCount, cancelCount>>
\* the simulation effect's timers and the component's life
lifeVars == <<timers, mounted, tornDown>>
vars == <<user, authPending, assets, selectedAssetId, portfolio, rendered,
          portfolioRef, error, nextId, saveCount, lastSave, saveStatus,
          tradeAwaits, history, timers, mounted,
          staleCommit, prePlacement, fillCount, cancelCount, tornDown>>

Ids == 1..MaxId

\* App state `isTrading`: set by handleTrade before it computes the trade and
\* cleared when it rejects the trade or, in its finally block, when the save
\* it awaits has settled
isTrading == tradeAwaits # "none"

DEFAULT_PORTFOLIO_DATA ==
  [cashBalance |-> INITIAL_CASH,
   holdings |-> [a \in AssetIds |-> [quantity |-> 0, avgCost |-> 0]],
   transactions |-> <<>>,
   openOrders |-> <<>>]

Init ==
  /\ user = NoUser
  /\ authPending = TRUE
  /\ assets = InitialPrice
  /\ selectedAssetId = "TOM"
  /\ portfolio = DEFAULT_PORTFOLIO_DATA
  /\ rendered = [portfolio |-> DEFAULT_PORTFOLIO_DATA, assets |-> InitialPrice]
  /\ portfolioRef = DEFAULT_PORTFOLIO_DATA
  /\ error = NoError
  /\ nextId = 1
  /\ saveCount = 0
  /\ tradeAwaits = "none"
  /\ lastSave = None
  /\ saveStatus = "idle"
  /\ history = [a \in AssetIds |-> [i \in 1..HISTORY_POINTS |-> InitialPrice[a]]]
  /\ timers = {NoUser}
  /\ mounted = TRUE
  /\ tornDown = {}
  /\ staleCommit = FALSE
  /\ prePlacement = None
  /\ fillCount = [i \in Ids |-> 0]
  /\ cancelCount = [i \in Ids |-> 0]

\* ---- rendering ----------------------------------------------------------
\* A render of App: the handlers of the new render close over the current
\* state (useCallback deps [assets, selectedAssetId, portfolio, user]).
Render ==
  /\ mounted
  /\ rendered # [portfolio |-> portfolio, assets |-> assets]
  /\ rendered' = [portfolio |-> portfolio, assets |-> assets]
  /\ UNCHANGED <<user, authPending, assets, selectedAssetId, portfolio,
                 portfolioRef, error, nextId, saveCount, lastSave, saveStatus, tradeAwaits,
                 history, lifeVars, histVars>>

\* useEffect(() => { portfolioRef.current = portfolio; }, [portfolio])
Effect ==
  /\ mounted
  /\ portfolioRef # rendered.portfolio
  /\ portfolioRef' = rendered.portfolio
  /\ UNCHANGED <<user, authPending, assets, selectedAssetId, portfolio,
                 rendered, error, nextId, saveCount, lastSave, saveStatus, tradeAwaits,
                 history, lifeVars, histVars>>

\* init(): setUser(await authenticateUser()), null in guest mode
authenticateUser ==
  /\ mounted
  /\ authPending
  /\ authPending' = FALSE
  /\ \E u \in {NoUser, Uid} : user' = u
  /\ UNCHANGED <<assets, selectedAssetId, portfolio, rendered, portfolioRef,
                 error, nextId, saveCount, lastSave, saveStatus, tradeAwaits,
                 history, lifeVars, histVars>>

\* AssetList onSelect; TradePanel resets its error when asset.id changes
\* React flushes the pending passive effects of the last render when a
\* discrete event (click, submit) is handled: by the time the handler's update
\* is committed the simulation effect has been re-created for the rendered user
EffectsFlushed == user \in timers

setSelectedAssetId(a) ==
  /\ mounted
  /\ EffectsFlushed
  /\ a # selectedAssetId
  /\ selectedAssetId' = a
  /\ error' = NoError
  /\ UNCHANGED <<user, authPending, assets, portfolio, rendered, portfolioRef,
                 nextId, saveCount, lastSave, saveStatus, tradeAwaits,
                 history, lifeVars, histVars>>

\* ---- the ledger transitions ---------------------------------------------
\* mutation: the save is handed the ledger the commit was computed from
CommitSavingBase(newPortfolio, base) ==
  /\ portfolio' = newPortfolio
  /\ saveCount' = saveCount + 1
  /\ lastSave' = base
  /\ saveStatus' = "pending"
  /\ staleCommit' = (base # portfolio)
\* setPortfolio(newPortfolio) followed by updatePortfolio(user.uid, newPortfolio),
\* for a newPortfolio computed from the snapshot `base`
\* a save issued by the cancel handler or by a matching pass comes after the
\* one handleTrade awaits
Overtaken(awaited) == IF awaited = "none" THEN "none" ELSE "earlier"

Commit(newPortfolio, base) ==
  /\ portfolio' = newPortfolio
  /\ saveCount' = saveCount + 1
  /\ lastSave' = newPortfolio
  /\ saveStatus' = "pending"
  /\ staleCommit' = (base # portfolio)

\* mutation: the funds comparison reversed
InsufficientFundsReversed(pf, cost) == pf.cashBalance > cost
InsufficientFunds(pf, cost) == pf.cashBalance < cost
\* mutation: the holding compared with zero instead of the requested quantity
InsufficientHoldingsZero(holding, quantity) == holding.quantity < 0
InsufficientHoldings(holding, quantity) == holding.quantity < quantity

\* mutation: the old total value forgotten, so avgCost is the price of the latest buy
JoinHoldingLatestPrice(currentHolding, quantity, cost) ==
  [quantity |-> currentHolding.quantity + quantity, avgCost |-> FDiv(cost, quantity)]
\* weighted-average join of a holding with `quantity` units bought for `cost`
JoinHolding(currentHolding, quantity, cost) ==
  LET oldTotalValue == FMul(currentHolding.quantity, currentHolding.avgCost)
      newTotalValue == FAdd(oldTotalValue, cost)
      newQuantity == currentHolding.quantity + quantity
  IN [quantity |-> newQuantity, avgCost |-> FDiv(newTotalValue, newQuantity)]

\* mutation: the spread of currentHolding forgotten, so the cost basis is lost
DeductHoldingNoSpread(pf, a, quantity) ==
  [pf EXCEPT !.holdings[a] = [quantity |-> pf.holdings[a].quantity - quantity, avgCost |-> 0]]

\* holdings[selectedAssetId] = {...currentHolding, quantity: currentHolding.quantity - quantity}
DeductHolding(pf, a, quantity) ==
  [pf EXCEPT !.holdings[a] = [pf.holdings[a] EXCEPT !.quantity = @ - quantity]]

\* mutation: the record carries limitPrice, which a market order does not have
MarketTransactionLimitPrice(id, type, a, quantity, price, limitPrice) ==
  [id |-> id, type |-> type, assetId |-> a, quantity |-> quantity,
   price |-> limitPrice, orderType |-> "MARKET"]
\* the transaction pushed for a market order (limitPrice is not recorded)
MarketTransaction(id, type, a, quantity, price, limitPrice) ==
  [id |-> id, type |-> type, assetId |-> a, quantity |-> quantity,
   price |-> price, orderType |-> "MARKET"]

\* handleTrade after the asset lookup: the new ledger, or the rejection
TradeResult(pf, a, marketPrice, type, quantity, orderType, limitPrice, id) ==
  LET price == IF orderType = "LIMIT" THEN limitPrice ELSE marketPrice
      cost == FMul(price, quantity)
      currentHolding == pf.holdings[a]
      order == [id |-> id, assetId |-> a, type |-> type,
                quantity |-> quantity, targetPrice |-> price]
      txn == MarketTransaction(id, type, a, quantity, price, limitPrice)
  IN IF type = "BUY"
     THEN IF InsufficientFunds(pf, cost)
          THEN [ok |-> FALSE, notification |-> "Insufficient funds"]
          ELSE LET debited == [pf EXCEPT !.cashBalance = FSub(@, cost)]
               IN [ok |-> TRUE,
                   newPortfolio |->
                     IF orderType = "MARKET"
                     THEN [debited EXCEPT
                             !.holdings[a] = JoinHolding(currentHolding, quantity, cost),
                             !.transactions = Append(@, txn)]
                     ELSE [debited EXCEPT !.openOrders = Append(@, order)]]
     ELSE IF InsufficientHoldings(currentHolding, quantity)
          THEN [ok |-> FALSE, notification |-> "Insufficient holdings"]
          ELSE LET deducted == DeductHolding(pf, a, quantity)
               IN [ok |-> TRUE,
                   newPortfolio |->
                     IF orderType = "MARKET"
                     THEN [deducted EXCEPT
                             !.cashBalance = FAdd(@, cost),
                             !.transactions = Append(@, txn)]
                     ELSE [deducted EXCEPT !.openOrders = Append(@, order)]]

\* mutation: handleSubmit without the limit price check
SubmitErrorNoPriceCheck(pf, assetPrice, a, mode, numericQty, orderType, numericLimitPrice) ==
  LET executionPrice == IF orderType = "MARKET" THEN assetPrice ELSE numericLimitPrice
      totalCost == FMul(numericQty, executionPrice)
  IN IF numericQty <= 0 THEN "Enter a valid quantity"
     ELSE IF mode = "BUY" /\ pf.cashBalance < totalCost THEN "Insufficient funds"
     ELSE IF mode = "SELL" /\ pf.holdings[a].quantity < numericQty THEN "Insufficient holdings"
     ELSE NoError

\* TradePanel.handleSubmit: the error it sets, NoError when it calls onTrade
SubmitError(pf, assetPrice, a, mode, numericQty, orderType, numericLimitPrice) ==
  LET executionPrice == IF orderType = "MARKET" THEN assetPrice ELSE numericLimitPrice
      totalCost == FMul(numericQty, executionPrice)
      canBuy == ~InsufficientFunds(pf, totalCost)
      canSell == ~InsufficientHoldings(pf.holdings[a], numericQty)
  IN IF numericQty <= 0 THEN "Enter a valid quantity"
     ELSE IF orderType = "LIMIT" /\ numericLimitPrice <= 0 THEN "Enter a valid price"
     ELSE IF mode = "BUY" /\ ~canBuy THEN "Insufficient funds"
     ELSE IF mode = "SELL" /\ ~canSell THEN "Insufficient holdings"
     ELSE NoError

\* handleTrade(type, quantity, orderType, limitPrice), called by handleSubmit
handleTrade(type, quantity, orderType, limitPrice) ==
  LET a == selectedAssetId
      r == TradeResult(rendered.portfolio, a, rendered.assets[a], type,
                       quantity, orderType, limitPrice, nextId)
  IN IF user = NoUser \/ ~r.ok
     THEN UNCHANGED <<portfolio, rendered, portfolioRef, nextId, saveCount,
                      lastSave, saveStatus, tradeAwaits, histVars>>
     ELSE /\ nextId <= MaxId
          /\ Commit(r.newPortfolio, rendered.portfolio)
          /\ tradeAwaits' = "latest"
          /\ rendered' = [rendered EXCEPT !.portfolio = r.newPortfolio]
          /\ portfolioRef' = r.newPortfolio
          /\ nextId' = nextId + 1
          /\ prePlacement' = IF orderType = "LIMIT"
                             THEN [kind |-> "placed", before |-> rendered.portfolio,
                                   orderId |-> nextId]
                             ELSE None
          /\ UNCHANGED <<fillCount, cancelCount>>

\* the submit of the trade form
handleSubmit(mode, numericQty, orderType, numericLimitPrice) ==
  LET a == selectedAssetId
      e == SubmitError(rendered.portfolio, rendered.assets[a], a, mode,
                       numericQty, orderType, numericLimitPrice)
  IN /\ mounted
     /\ EffectsFlushed
     /\ ~isTrading
     /\ error' = e
     /\ IF e # NoError
        THEN UNCHANGED <<portfolio, rendered, portfolioRef, nextId, saveCount,
                         lastSave, saveStatus, tradeAwaits, histVars>>
        ELSE handleTrade(mode, numericQty, orderType, numericLimitPrice)
     /\ UNCHANGED <<user, authPending, assets, selectedAssetId, history, lifeVars>>

\* index of the first order with the given id, 0 when there is none (findIndex)
FindIndex(orders, orderId) ==
  IF \E i \in 1..Len(orders) : orders[i].id = orderId
  THEN CHOOSE i \in 1..Len(orders) :
         /\ orders[i].id = orderId
         /\ \A j \in 1..(i - 1) : orders[j].id # orderId
  ELSE 0

\* splice(orderIndex, 1)
Splice(s, i) == SubSeq(s, 1, i - 1) \o SubSeq(s, i + 1, Len(s))

\* mutation: a cancelled SELL order does not get its units back
CancelLedgerNoUnitRefund(pf, orderIndex) ==
  LET order == pf.openOrders[orderIndex]
      refunded ==
        IF order.type = "BUY"
        THEN [pf EXCEPT !.cashBalance = FAdd(@, FMul(order.quantity, order.targetPrice))]
        ELSE pf
  IN [refunded EXCEPT !.openOrders = Splice(@, orderIndex)]

\* the ledger handleCancelOrder commits for the order at orderIndex
CancelLedger(pf, orderIndex) ==
  LET order == pf.openOrders[orderIndex]
      refunded ==
        IF order.type = "BUY"
        THEN [pf EXCEPT !.cashBalance = FAdd(@, FMul(order.quantity, order.targetPrice))]
        ELSE [pf EXCEPT !.holdings[order.assetId].quantity = @ + order.quantity]
  IN [refunded EXCEPT !.openOrders = Splice(@, orderIndex)]

handleCancelOrder(orderId) ==
  LET orderIndex == FindIndex(rendered.portfolio.openOrders, orderId)
  IN /\ mounted
     /\ EffectsFlushed
     /\ user # NoUser
     /\ orderIndex # 0
     /\ LET newPortfolio == CancelLedger(rendered.portfolio, orderIndex)
        IN /\ Commit(newPortfolio, rendered.portfolio)
           /\ tradeAwaits' = Overtaken(tradeAwaits)
           /\ rendered' = [rendered EXCEPT !.portfolio = newPortfolio]
           /\ portfolioRef' = newPortfolio
     /\ cancelCount' = [cancelCount EXCEPT ![orderId] = @ + 1]
     /\ prePlacement' = None
     /\ UNCHANGED <<user, authPending, assets, selectedAssetId, error, nextId,
                    fillCount, history, lifeVars>>

\* ---- the simulation tick ------------------------------------------------
Max(x, y) == IF x >= y THEN x ELSE y

\* the prices one random-walk step can give an asset: current_price * (1 + change)
\* with change in [-volatility, +volatility), floored at 0.01
NewPrices(current_price, levels) ==
  {Max(PriceFloor, p) : p \in
     {l \in levels : /\ (100 - VolatilityPct) * current_price <= 100 * l
                     /\ 100 * l < (100 + VolatilityPct) * current_price}}

\* prevAssets.map(...): every asset advances in the same tick
AdvancePrices(prevAssets) ==
  {n \in [AssetIds -> UNION {PriceLevels[a] : a \in AssetIds} \cup {PriceFloor}] :
     \A a \in AssetIds : n[a] \in NewPrices(prevAssets[a], PriceLevels[a])}

\* mutation: the BUY comparison reversed
BuyExecutesAbove(order, current_price) ==
  order.type = "BUY" /\ current_price >= order.targetPrice
\* BUY Limit: execute if current price <= target price
BuyExecutes(order, current_price) ==
  order.type = "BUY" /\ current_price <= order.targetPrice
\* SELL Limit: execute if current price >= target price
SellExecutes(order, current_price) ==
  order.type = "SELL" /\ current_price >= order.targetPrice

\* mutation: the fill recorded at the tick's market price
FillTransactionAtMarket(order, id, current_price) ==
  [id |-> id, type |-> order.type, assetId |-> order.assetId,
   quantity |-> order.quantity, price |-> current_price, orderType |-> "LIMIT"]
\* the transaction pushed for an executed order (current_price is not recorded)
FillTransaction(order, id, current_price) ==
  [id |-> id, type |-> order.type, assetId |-> order.assetId,
   quantity |-> order.quantity, price |-> order.targetPrice, orderType |-> "LIMIT"]

\* mutation: a filled BUY pays again although its cash was escrowed at placement
SettleFillPayingAgain(np, order) ==
  LET amount == FMul(order.quantity, order.targetPrice)
  IN IF order.type = "BUY"
     THEN [np EXCEPT !.cashBalance = FSub(@, amount),
                     !.holdings[order.assetId] =
                        JoinHolding(np.holdings[order.assetId], order.quantity, amount)]
     ELSE [np EXCEPT !.cashBalance = FAdd(@, amount)]
\* the settlement of an executed order: a BUY moves the holding, a SELL credits the revenue
SettleFill(np, order) ==
  LET amount == FMul(order.quantity, order.targetPrice)
  IN IF order.type = "BUY"
     THEN [np EXCEPT !.holdings[order.assetId] =
                        JoinHolding(np.holdings[order.assetId], order.quantity, amount)]
     ELSE [np EXCEPT !.cashBalance = FAdd(@, amount)]

\* the forEach of the matching pass over orders[i..], threading the mutable
\* locals of the pass: newPortfolio, remainingOrders, portfolioChanged, the
\* ids generateId() hands out and the orders reported as filled
RECURSIVE MatchFrom(_, _, _, _)
MatchFrom(st, orders, i, newAssets) ==
  IF i > Len(orders) THEN st
  ELSE
    LET order == orders[i]
        a == order.assetId
    IN IF a \notin DOMAIN newAssets
       THEN MatchFrom([st EXCEPT !.remainingOrders = Append(@, order)],
                      orders, i + 1, newAssets)
       ELSE
         LET current_price == newAssets[a]
             txn == FillTransaction(order, st.id, current_price)
             settled == SettleFill(st.newPortfolio, order)
             executed == BuyExecutes(order, current_price) \/ SellExecutes(order, current_price)
         IN IF executed
            THEN MatchFrom([st EXCEPT
                              !.newPortfolio = [settled EXCEPT !.transactions = Append(@, txn)],
                              !.portfolioChanged = TRUE,
                              !.id = @ + 1,
                              !.filled = Append(@, order.id)],
                           orders, i + 1, newAssets)
            ELSE MatchFrom([st EXCEPT !.remainingOrders = Append(@, order)],
                           orders, i + 1, newAssets)

\* mutation: the pass runs a second time over the orders it has already executed
MatchOrdersTwice(currentPortfolio, newAssets, id) ==
  MatchFrom(MatchFrom([newPortfolio |-> currentPortfolio, remainingOrders |-> <<>>,
                       portfolioChanged |-> FALSE, id |-> id, filled |-> <<>>],
                      currentPortfolio.openOrders, 1, newAssets),
            currentPortfolio.openOrders, 1, newAssets)
\* the matching pass over the ledger currentPortfolio with the new prices
MatchOrders(currentPortfolio, newAssets, id) ==
  MatchFrom([newPortfolio |-> currentPortfolio, remainingOrders |-> <<>>,
             portfolioChanged |-> FALSE, id |-> id, filled |-> <<>>],
            currentPortfolio.openOrders, 1, newAssets)

Occurrences(s, x) == Cardinality({k \in 1..Len(s) : s[k] = x})

\* mutation: the new point appended without dropping the oldest one
NewHistoryNoEviction(assetHistory, newHistoryPoint) ==
  Append(assetHistory, newHistoryPoint)
\* [...asset.history.slice(1), newHistoryPoint]
NewHistory(assetHistory, newHistoryPoint) ==
  Append(SubSeq(assetHistory, 2, Len(assetHistory)), newHistoryPoint)

\* the setInterval callback of the timer whose closure holds timerUser:
\* the price step, then the matching pass
TimerFires(timerUser) ==
  \E newAssets \in AdvancePrices(assets) :
    LET currentPortfolio == portfolioRef
        m == MatchOrders(currentPortfolio, newAssets, nextId)
        newPortfolio == [m.newPortfolio EXCEPT !.openOrders = m.remainingOrders]
    IN /\ assets' = newAssets
       /\ history' = [a \in AssetIds |-> NewHistory(history[a], newAssets[a])]
       /\ IF timerUser # NoUser /\ Len(currentPortfolio.openOrders) > 0 /\ m.portfolioChanged
          THEN /\ nextId <= MaxId + 1
               /\ Commit(newPortfolio, currentPortfolio)
               /\ tradeAwaits' = Overtaken(tradeAwaits)
               /\ nextId' = m.id
               /\ fillCount' = [i \in Ids |-> fillCount[i] + Occurrences(m.filled, i)]
               /\ prePlacement' = None
               /\ UNCHANGED cancelCount
          ELSE UNCHANGED <<portfolio, nextId, saveCount, lastSave, saveStatus,
                           tradeAwaits, histVars>>
       /\ UNCHANGED <<user, authPending, selectedAssetId, rendered, portfolioRef,
                      error, lifeVars>>

\* a tick: one of the active timers fires
Tick == \E timerUser \in timers : TimerFires(timerUser)

\* ---- the life of the simulation effect ---------------------------------
\* mutation: the cleanup does not release the timer
ClearIntervalForgotten(active, interval) == active
\* clearInterval(interval)
ClearInterval(active, interval) == active \ {interval}

\* the cleanup of the simulation effect: return () => clearInterval(interval)
Cleanup(active) ==
  IF active = {} THEN {} ELSE ClearInterval(active, CHOOSE interval \in active : TRUE)

\* useEffect(..., [user]) runs again after user has changed: the cleanup of
\* the previous run, then a new setInterval whose callback closes over user
SimulationEffect ==
  /\ mounted
  /\ user \notin timers
  /\ timers' = Cleanup(timers) \cup {user}
  /\ tornDown' = tornDown \cup timers
  /\ UNCHANGED <<user, authPending, assets, selectedAssetId, portfolio, rendered,
                 portfolioRef, error, nextId, saveCount, lastSave, saveStatus, tradeAwaits,
                 history, mounted, histVars>>

\* App unmounts: the cleanup of the simulation effect runs, and the state of
\* the component is discarded with it (the variables take their initial
\* values; nothing reads them afterwards)
Unmount ==
  /\ mounted
  /\ mounted' = FALSE
  /\ timers' = Cleanup(timers)
  /\ tornDown' = tornDown \cup timers
  /\ user' = NoUser
  /\ authPending' = FALSE
  /\ assets' = InitialPrice
  /\ history' = [a \in AssetIds |-> [i \in 1..HISTORY_POINTS |-> InitialPrice[a]]]
  /\ selectedAssetId' = "TOM"
  /\ portfolio' = DEFAULT_PORTFOLIO_DATA
  /\ rendered' = [portfolio |-> DEFAULT_PORTFOLIO_DATA, assets |-> InitialPrice]
  /\ portfolioRef' = DEFAULT_PORTFOLIO_DATA
  /\ error' = NoError
  /\ nextId' = 1
  /\ saveCount' = 0
  /\ lastSave' = None
  /\ saveStatus' = "idle"
  /\ tradeAwaits' = "none"
  /\ staleCommit' = FALSE
  /\ prePlacement' = None
  /\ fillCount' = [i \in Ids |-> 0]
  /\ cancelCount' = [i \in Ids |-> 0]

\* ---- persistence -------------------------------------------------------
\* mutation: a failed save puts the default ledger back
LedgerAfterSaveRolledBack(committed, ok) ==
  IF ok THEN committed ELSE DEFAULT_PORTFOLIO_DATA
\* the in-memory ledger once updatePortfolio has settled: neither the
\* continuation after the await nor the catch block writes it
LedgerAfterSave(committed, ok) == committed

\* the promise of the latest updatePortfolio call settles: resolved (ok) or rejected
\* mutation: the flag is cleared after a successful save only
AwaitedAfterSettleDroppedOnFailure(awaited, ok) == IF ok THEN "none" ELSE awaited
\* handleTrade resumes when the save it awaits settles: whether it resolved
\* or threw, the finally block runs setIsTrading(false)
AwaitedAfterSettle(awaited, ok) == "none"

updatePortfolioSettles(ok) ==
  /\ mounted
  /\ saveStatus = "pending"
  /\ saveStatus' = IF ok THEN "idle" ELSE "failed"
  /\ tradeAwaits' = IF tradeAwaits = "latest"
                    THEN AwaitedAfterSettle(tradeAwaits, ok) ELSE tradeAwaits
  /\ portfolio' = LedgerAfterSave(portfolio, ok)
  /\ UNCHANGED <<user, authPending, assets, selectedAssetId, rendered,
                 portfolioRef, error, nextId, saveCount, lastSave,
                 history, lifeVars, histVars>>

\* the promise of the save handleTrade awaits settles after a later save has
\* been issued
earlierSaveSettles(ok) ==
  /\ mounted
  /\ tradeAwaits = "earlier"
  /\ tradeAwaits' = AwaitedAfterSettle(tradeAwaits, ok)
  /\ UNCHANGED <<user, authPending, assets, selectedAssetId, portfolio, rendered,
                 portfolioRef, error, nextId, saveCount, lastSave, saveStatus,
                 history, lifeVars, histVars>>

\* ---- the portfolio subscription ----------------------------------------
\* the fields of a Portfolio document
Fields == {"cashBalance", "holdings", "transactions", "openOrders"}

\* complete documents the store may hold
FullSnapshots ==
  [cashBalance : {500000},
   holdings : {[a \in AssetIds |-> [quantity |-> IF a = "TOM" THEN 2 ELSE 0,
                                    avgCost |-> IF a = "TOM" THEN 1040 ELSE 0]]},
   transactions : {<<[id |-> 1, type |-> "BUY", assetId |-> "TOM", quantity |-> 2,
                      price |-> 1040, orderType |-> "MARKET"]>>},
   openOrders : {<<[id |-> 2, assetId |-> "CAR", type |-> "BUY", quantity |-> 1,
                    targetPrice |-> 1040]>>}]

\* docSnapshot.data(): a document in which any of the fields may be missing
Snapshots == {[f \in present |-> full[f]] : full \in FullSnapshots, present \in SUBSET Fields}

\* {...base, ...over}
Spread(base, over) ==
  [f \in DOMAIN base \cup DOMAIN over |-> IF f \in DOMAIN over THEN over[f] ELSE base[f]]

\* data[f] || []
OrEmpty(data, f) == IF f \in DOMAIN data THEN data[f] ELSE <<>>

\* mutation: the snapshot is stored as delivered
MergeAsDelivered(data) == data
\* the ledger the subscription callback of App stores for a snapshot
Merge(data) ==
  Spread(Spread(DEFAULT_PORTFOLIO_DATA, data),
         [transactions |-> OrEmpty(data, "transactions"),
          openOrders |-> OrEmpty(data, "openOrders")])

\* the onSnapshot listener of subscribeToPortfolio: the document, or the
\* default ledger when the document does not exist, goes to the callback of
\* App, which stores the merged ledger
onSnapshot(exists, data) ==
  /\ mounted
  /\ user # NoUser
  /\ portfolio' = Merge(IF exists THEN data ELSE DEFAULT_PORTFOLIO_DATA)
  /\ UNCHANGED <<user, authPending, assets, selectedAssetId, rendered,
                 portfolioRef, error, nextId, saveCount, lastSave, saveStatus, tradeAwaits,
                 history, lifeVars, histVars>>

Next ==
  \/ authenticateUser
  \/ Render
  \/ Effect
  \/ \E a \in AssetIds : setSelectedAssetId(a)
  \/ \E mode \in Sides, q \in Qtys, ot \in OrderTypes :
       \E lp \in LimitInputs(ot) : handleSubmit(mode, q, ot, lp)
  \/ \E orderId \in Ids : handleCancelOrder(orderId)
  \/ Tick
  \/ SimulationEffect
  \/ Unmount
  \/ \E ok \in BOOLEAN : updatePortfolioSettles(ok)
  \/ \E ok \in BOOLEAN : earlierSaveSettles(ok)

Spec == Init /\ [][Next]_vars

\* the session of a user whose ledger is written by the store only: snapshots
\* arrive, are rendered, and reach portfolioRef
NextSubscription ==
  \/ authenticateUser
  \/ SimulationEffect
  \/ \E exists \in BOOLEAN, data \in Snapshots : onSnapshot(exists, data)
  \/ Render
  \/ Effect

SpecSubscription == Init /\ [][NextSubscription]_vars

\* the session with other request inputs: orders of several units, and a
\* limit price far above the market
LargeQtys == {3}
LargeLimitPrices == {21850}
LargeLimitInputs(orderType) == IF orderType = "LIMIT" THEN LargeLimitPrices ELSE {0}

NextLargeOrders ==
  \/ authenticateUser
  \/ Render
  \/ Effect
  \/ \E a \in AssetIds : setSelectedAssetId(a)
  \/ \E mode \in Sides, q \in LargeQtys, ot \in OrderTypes :
       \E lp \in LargeLimitInputs(ot) : handleSubmit(mode, q, ot, lp)
  \/ \E orderId \in Ids : handleCancelOrder(orderId)
  \/ Tick
  \/ SimulationEffect
  \/ Unmount
  \/ \E ok \in BOOLEAN : updatePortfolioSettles(ok)
  \/ \E ok \in BOOLEAN : earlierSaveSettles(ok)

SpecLargeOrders == Init /\ [][NextLargeOrders]_vars

\* the session in which every save call settles: the promise returned by
\* updatePortfolio resolves or rejects in the end, whichever save it belongs to
SpecSavesSettle ==
  /\ Spec
  /\ WF_vars(\E ok \in BOOLEAN : updatePortfolioSettles(ok))
  /\ WF_vars(\E ok \in BOOLEAN : earlierSaveSettles(ok))

TypeOK ==
  /\ user \in {NoUser, Uid}
  /\ nextId \in 1..(2 * MaxId + 2)
  /\ portfolio.cashBalance \in Int
  /\ lastSave \in {None, portfolio}
  /\ saveStatus \in {"idle", "pending", "failed"}
  /\ tradeAwaits \in {"none", "latest", "earlier"}
  /\ timers \subseteq {NoUser, Uid}
  /\ \A a \in AssetIds : history[a] \in [1..HISTORY_POINTS -> PriceLevels[a] \cup {InitialPrice[a]}]

\* ======================================================================
\* Properties.  Arithmetic in a property is the program's arithmetic (the
\* floating-point operations above); the ledger a request "sees" is the one
\* its handler closes over, rendered.portfolio.
\* ======================================================================

IsPrefix(s, t) == Len(s) <= Len(t) /\ SubSeq(t, 1, Len(s)) = s

RECURSIVE QtySum(_, _, _, _)
\* total quantity of the records of s[i..] with the given asset and side
QtySum(s, i, a, side) ==
  IF i > Len(s) THEN 0
  ELSE (IF s[i].assetId = a /\ s[i].type = side THEN s[i].quantity ELSE 0)
       + QtySum(s, i + 1, a, side)

RECURSIVE AddEscrow(_, _, _)
\* acc plus quantity*targetPrice of every open BUY order of orders[i..]
AddEscrow(acc, orders, i) ==
  IF i > Len(orders) THEN acc
  ELSE AddEscrow(IF orders[i].type = "BUY"
                 THEN FAdd(acc, FMul(orders[i].quantity, orders[i].targetPrice))
                 ELSE acc,
                 orders, i + 1)

RECURSIVE ReplayCash(_, _, _)
\* acc minus quantity*price of every BUY, plus that of every SELL, of txns[i..]
ReplayCash(acc, txns, i) ==
  IF i > Len(txns) THEN acc
  ELSE ReplayCash(IF txns[i].type = "BUY"
                  THEN FSub(acc, FMul(txns[i].quantity, txns[i].price))
                  ELSE FAdd(acc, FMul(txns[i].quantity, txns[i].price)),
                  txns, i + 1)

\* C1: every ledger commit (matching pass, handleTrade, handleCancelOrder) is
\* computed from the most recently committed ledger, so no commit overwrites
\* and loses an earlier one.
C1_CommitFromLatestLedger == staleCommit = FALSE

\* C2: every limit order has at most one terminal event: it is filled once
\* or cancelled once, never both and never twice.
C2_AtMostOneTerminalEvent ==
  \A i \in Ids : fillCount[i] + cancelCount[i] <= 1

\* C3: cashBalance plus the escrow of the open BUY orders equals the starting
\* cash minus the BUY transactions plus the SELL transactions.
C3_CashConservation ==
  AddEscrow(portfolio.cashBalance, portfolio.openOrders, 1)
    = ReplayCash(INITIAL_CASH, portfolio.transactions, 1)

\* C4: for every asset the holding's quantity is non-negative, and together
\* with the units escrowed in open SELL orders it equals the units bought
\* minus the units sold in the transaction log.
C4_UnitsConserved ==
  \A a \in AssetIds :
    /\ portfolio.holdings[a].quantity >= 0
    /\ portfolio.holdings[a].quantity + QtySum(portfolio.openOrders, 1, a, "SELL")
         = QtySum(portfolio.transactions, 1, a, "BUY")
           - QtySum(portfolio.transactions, 1, a, "SELL")

\* a ledger with units bought, some of them escrowed in an open SELL order
C4_Witness ==
  \E i \in 1..Len(portfolio.openOrders) :
    /\ portfolio.openOrders[i].type = "SELL"
    /\ QtySum(portfolio.transactions, 1, portfolio.openOrders[i].assetId, "BUY") > 0

\* C5: cashBalance is never negative.
C5_CashNeverNegative == portfolio.cashBalance >= 0

\* cash has been spent and a BUY beyond the balance has been refused
C5_Witness ==
  /\ portfolio.cashBalance < INITIAL_CASH
  /\ error = "Insufficient funds"

\* C6: the transaction log is append-only: across every ledger transition the
\* old transactions sequence is a prefix of the new one.
C6_TransactionsAppendOnly ==
  [][IsPrefix(portfolio.transactions, portfolio'.transactions)]_vars

\* the request exceeds what the ledger it is evaluated against can pay or deliver
Exceeds(mode, q, ot, lp) ==
  LET price == IF ot = "MARKET" THEN rendered.assets[selectedAssetId] ELSE lp
  IN \/ mode = "BUY" /\ FMul(q, price) > rendered.portfolio.cashBalance
     \/ mode = "SELL" /\ q > rendered.portfolio.holdings[selectedAssetId].quantity

\* the step refuses a request: an error is shown, the ledger is untouched, nothing is saved
Rejected ==
  /\ error' # NoError
  /\ UNCHANGED <<portfolio, saveCount, lastSave>>

\* C7: a BUY whose quantity*price exceeds cashBalance and a SELL whose
\* quantity exceeds holding.quantity is rejected: the ledger (cashBalance,
\* holdings, transactions, openOrders) is unchanged and no save is issued.
C7_InsufficientRejected ==
  [][\/ Rejected
     \/ \A mode \in Sides, q \in Qtys, ot \in OrderTypes :
          \A lp \in LimitInputs(ot) :
            ~(Exceeds(mode, q, ot, lp) /\ handleSubmit(mode, q, ot, lp))]_vars

\* a SELL beyond the holding has been refused on a ledger that has traded
C7_Witness ==
  /\ error = "Insufficient holdings"
  /\ saveCount > 0

ValidRecords ==
  /\ \A i \in 1..Len(portfolio.openOrders) :
       portfolio.openOrders[i].quantity > 0 /\ portfolio.openOrders[i].targetPrice > 0
  /\ \A i \in 1..Len(portfolio.transactions) : portfolio.transactions[i].quantity > 0

\* C8: a request with quantity <= 0, or a limit request with targetPrice <= 0,
\* is rejected and leaves the ledger unchanged; no open order with
\* non-positive quantity or targetPrice and no transaction with non-positive
\* quantity ever exists.
C8_InvalidRejected ==
  /\ []ValidRecords
  /\ [][\/ Rejected
        \/ \A mode \in Sides, q \in Qtys, ot \in OrderTypes :
             \A lp \in LimitInputs(ot) :
               ~((q <= 0 \/ (ot = "LIMIT" /\ lp <= 0)) /\ handleSubmit(mode, q, ot, lp))]_vars

\* a limit request without a price has been refused while an order is open
C8_Witness ==
  /\ error = "Enter a valid price"
  /\ Len(portfolio.openOrders) > 0

\* the step is an accepted limit placement of side mode, computed from the ledger pf
LimitPlaced(mode, q, lp) ==
  /\ portfolio' # portfolio
  /\ handleSubmit(mode, q, "LIMIT", lp)

\* C9: a successful limit BUY debits cashBalance by quantity*targetPrice, adds
\* one open order and leaves holdings and transactions unchanged; a successful
\* limit SELL decrements the asset's holding.quantity by quantity, adds one
\* open order and leaves cashBalance, the holding's avgCost, the other
\* holdings and transactions unchanged (the ledger the placement is applied
\* to being the one the handler holds).
C9_LimitPlacementFrame ==
  [][\A q \in Qtys, lp \in LimitPrices :
       LET pf == rendered.portfolio
           a == selectedAssetId
           placedOrder == [id |-> nextId, assetId |-> a, type |-> "BUY",
                           quantity |-> q, targetPrice |-> lp]
       IN /\ LimitPlaced("BUY", q, lp) =>
               /\ portfolio'.cashBalance = FSub(pf.cashBalance, FMul(q, lp))
               /\ portfolio'.openOrders = Append(pf.openOrders, placedOrder)
               /\ portfolio'.holdings = pf.holdings
               /\ portfolio'.transactions = pf.transactions
          /\ LimitPlaced("SELL", q, lp) =>
               /\ portfolio'.holdings[a].quantity = pf.holdings[a].quantity - q
               /\ portfolio'.holdings[a].avgCost = pf.holdings[a].avgCost
               /\ \A b \in AssetIds \ {a} : portfolio'.holdings[b] = pf.holdings[b]
               /\ portfolio'.openOrders =
                    Append(pf.openOrders, [placedOrder EXCEPT !.type = "SELL"])
               /\ portfolio'.cashBalance = pf.cashBalance
               /\ portfolio'.transactions = pf.transactions]_vars

\* a limit SELL has just been placed on a holding with a cost basis
C9_Witness ==
  /\ prePlacement.kind = "placed"
  /\ Len(portfolio.openOrders) > 0
  /\ LET o == portfolio.openOrders[Len(portfolio.openOrders)]
     IN /\ o.type = "SELL"
        /\ o.id = prePlacement.orderId
        /\ portfolio.holdings[o.assetId].avgCost > 0

\* C10: placing a limit order and cancelling it with no ledger transition in
\* between restores cashBalance and every holding to the pre-placement
\* values and leaves openOrders and transactions as before the placement.
C10_PlaceCancelRestores ==
  [][\A orderId \in Ids :
       (/\ prePlacement.kind = "placed"
        /\ prePlacement.orderId = orderId
        /\ handleCancelOrder(orderId))
         => portfolio' = prePlacement.before]_vars

\* ---- the matching pass --------------------------------------------------
\* the order meets its execution condition at the given prices
Meets(order, prices) ==
  \/ order.type = "BUY" /\ prices[order.assetId] <= order.targetPrice
  \/ order.type = "SELL" /\ prices[order.assetId] >= order.targetPrice

\* the orders of a sequence that do not meet their condition, in their order
Unmet(orders, prices) ==
  LET stays(o) == ~Meets(o, prices) IN SelectSeq(orders, stays)

\* the orders of a sequence that meet their condition, in their order
Met(orders, prices) ==
  LET fills(o) == Meets(o, prices) IN SelectSeq(orders, fills)

\* the steps a timer callback can take: it leaves the handlers' closures, the
\* ref, the panel and the timers alone, settles no save and resumes no
\* handler.  Every tick is such a step, so what holds of all of them holds of
\* every tick.
TickStep ==
  /\ UNCHANGED <<authPending, selectedAssetId, rendered, portfolioRef, error, lifeVars>>
  /\ ~(saveStatus = "pending" /\ saveStatus' # "pending")
  /\ isTrading' = isTrading

\* every tick is a TickStep
TicksAreTickSteps == [][Tick => TickStep]_vars

\* the order with this id is reported filled by the step
FilledNow(id) == fillCount'[id] = fillCount[id] + 1

RECURSIVE FillRecords(_, _, _)
FillRecords(executed, i, id) ==
  IF i > Len(executed) THEN <<>>
  ELSE <<[id |-> id, type |-> executed[i].type, assetId |-> executed[i].assetId,
          quantity |-> executed[i].quantity, price |-> executed[i].targetPrice,
          orderType |-> "LIMIT"]>>
       \o FillRecords(executed, i + 1, id + 1)

\* C12: each order filled by a matching pass is removed from openOrders and
\* produces exactly one new transaction, with orderType LIMIT, the order's
\* side and asset, its full quantity and price equal to its targetPrice
\* rather than the tick's market price.
C12_FillRecordsOneTransaction ==
  [][(portfolio' # portfolio /\ TickStep) =>
       LET pf == portfolioRef
           executed == Met(pf.openOrders, assets')
       IN /\ portfolio'.transactions = pf.transactions \o FillRecords(executed, 1, nextId)
          /\ \A i \in 1..Len(executed) :
               \A j \in 1..Len(portfolio'.openOrders) :
                 portfolio'.openOrders[j].id # executed[i].id]_vars

\* a fill has been recorded at a targetPrice that differs from the market price of the tick
C12_Witness ==
  /\ Len(portfolio.transactions) > 0
  /\ LET t == portfolio.transactions[Len(portfolio.transactions)]
     IN /\ t.orderType = "LIMIT"
        /\ t.price # assets[t.assetId]
        /\ fillCount[1] > 0

\* the settlement of the executed orders executed[i..], applied in their order
RECURSIVE Settled(_, _, _)
Settled(pf, executed, i) ==
  IF i > Len(executed) THEN pf
  ELSE LET o == executed[i]
           h == pf.holdings[o.assetId]
           amount == FMul(o.quantity, o.targetPrice)
       IN Settled(IF o.type = "BUY"
                  THEN [pf EXCEPT !.holdings[o.assetId] =
                          [quantity |-> h.quantity + o.quantity,
                           avgCost |-> FDiv(FAdd(FMul(h.quantity, h.avgCost), amount),
                                            h.quantity + o.quantity)]]
                  ELSE [pf EXCEPT !.cashBalance = FAdd(@, amount)],
                  executed, i + 1)

\* C13: settlement at fill uses the escrow taken at placement: a filled BUY
\* leaves cashBalance unchanged and adds the order quantity to the holding
\* with avgCost = (oldQty*oldAvgCost + qty*targetPrice)/(oldQty+qty); a filled
\* SELL credits cashBalance by exactly qty*targetPrice and leaves every
\* holding unchanged.
C13_FillSettlement ==
  [][(portfolio' # portfolio /\ TickStep) =>
       LET pf == portfolioRef
           after == Settled(pf, Met(pf.openOrders, assets'), 1)
       IN /\ portfolio'.cashBalance = after.cashBalance
          /\ portfolio'.holdings = after.holdings]_vars

\* a BUY fill has joined a holding bought at another price: the average cost
\* lies strictly between the two prices
C13_Witness ==
  /\ Len(portfolio.transactions) > 1
  /\ LET t == portfolio.transactions[Len(portfolio.transactions)]
         h == portfolio.holdings[t.assetId]
     IN /\ t.orderType = "LIMIT"
        /\ t.type = "BUY"
        /\ h.quantity > t.quantity
        /\ h.avgCost > t.price

\* ---- market orders ------------------------------------------------------
\* no limit order has ever been placed: none is open, none was filled or cancelled
MarketOnly ==
  /\ Len(portfolio.openOrders) = 0
  /\ \A i \in Ids : fillCount[i] = 0 /\ cancelCount[i] = 0

\* the step is an accepted market order of the given side, applied to the handler's ledger
MarketAccepted(mode, q) ==
  /\ portfolio' # portfolio
  /\ handleSubmit(mode, q, "MARKET", 0)

\* C14: for every sequence of accepted market BUY and SELL orders (no limit
\* orders), cashBalance equals startingCash minus quantity*execution price of
\* the BUYs plus quantity*execution price of the SELLs, taken in the order of
\* the sequence, and each accepted market order appends exactly one MARKET
\* transaction.
C14_MarketCashReplay ==
  /\ [](MarketOnly =>
          /\ portfolio.cashBalance = ReplayCash(INITIAL_CASH, portfolio.transactions, 1)
          /\ \A i \in 1..Len(portfolio.transactions) :
               portfolio.transactions[i].orderType = "MARKET")
  /\ [][\A mode \in Sides, q \in Qtys :
          MarketAccepted(mode, q) =>
            portfolio'.transactions =
              Append(rendered.portfolio.transactions,
                     [id |-> nextId, type |-> mode, assetId |-> selectedAssetId,
                      quantity |-> q, price |-> rendered.assets[selectedAssetId],
                      orderType |-> "MARKET"])]_vars

\* a market BUY followed by a market SELL at another price, and nothing else
C14_Witness ==
  /\ MarketOnly
  /\ Len(portfolio.transactions) > 1
  /\ portfolio.transactions[1].type = "BUY"
  /\ portfolio.transactions[2].type = "SELL"
  /\ portfolio.transactions[1].price # portfolio.transactions[2].price

\* 10 units at 10.00 then 10 units at 20.00, bought into an empty holding
TenAtTenThenTenAtTwenty ==
  JoinHolding(JoinHolding([quantity |-> 0, avgCost |-> 0], 10, FMul(1000, 10)),
              10, FMul(2000, 10))

\* C15: a market BUY of q units at price p on a holding with quantity Q and
\* average cost A yields quantity Q+q and avgCost (Q*A + q*p)/(Q+q) (10 units
\* at 10 then 10 units at 20 gives avgCost 15), and a market SELL changes only
\* the holding's quantity, leaving avgCost unchanged.
C15_WeightedAverageCost ==
  /\ [](TenAtTenThenTenAtTwenty = [quantity |-> 20, avgCost |-> 1500])
  /\ [][\A q \in Qtys :
          LET a == selectedAssetId
              p == rendered.assets[a]
              h == rendered.portfolio.holdings[a]
          IN /\ MarketAccepted("BUY", q) =>
                  /\ portfolio'.holdings[a].quantity = h.quantity + q
                  /\ portfolio'.holdings[a].avgCost =
                       FDiv(FAdd(FMul(h.quantity, h.avgCost), FMul(q, p)), h.quantity + q)
                  /\ \A b \in AssetIds \ {a} :
                       portfolio'.holdings[b] = rendered.portfolio.holdings[b]
             /\ MarketAccepted("SELL", q) =>
                  /\ portfolio'.holdings[a].quantity = h.quantity - q
                  /\ portfolio'.holdings[a].avgCost = h.avgCost
                  /\ \A b \in AssetIds \ {a} :
                       portfolio'.holdings[b] = rendered.portfolio.holdings[b]]_vars

\* two market BUYs of one unit at different prices: the holding has the
\* average of the two prices
C15_Witness ==
  /\ MarketOnly
  /\ Len(portfolio.transactions) = 2
  /\ portfolio.transactions[1].type = "BUY"
  /\ portfolio.transactions[2].type = "BUY"
  /\ portfolio.transactions[1].price # portfolio.transactions[2].price
  /\ LET a == portfolio.transactions[2].assetId
     IN /\ portfolio.transactions[1].assetId = a
        /\ portfolio.holdings[a].quantity = 2
        /\ 2 * portfolio.holdings[a].avgCost
             = portfolio.transactions[1].price + portfolio.transactions[2].price

\* the number of fills the step reports for the order with this id
FillsNow(id) == fillCount'[id] - fillCount[id]

\* C17: on every tick the prices of all assets are advanced together first
\* and then exactly one matching pass runs, in which every open order is
\* evaluated against the post-tick price of its asset: no order is evaluated
\* against a pre-tick price or against prices from two different ticks.
C17_OnePassOnPostTickPrices ==
  [][TickStep =>
       LET pf == portfolioRef
           orders == pf.openOrders
           decided == {i \in 1..Len(orders) : Meets(orders[i], assets')}
       IN /\ \A a \in AssetIds : assets'[a] \in NewPrices(assets[a], PriceLevels[a])
          /\ \A id \in Ids : FillsNow(id) \in {0, 1}
          /\ \A i \in 1..Len(orders) :
               /\ (Meets(orders[i], assets) /\ ~Meets(orders[i], assets'))
                    => FillsNow(orders[i].id) = 0
               /\ (~Meets(orders[i], assets) /\ Meets(orders[i], assets'))
                    => FillsNow(orders[i].id) = 1
          /\ portfolio' # portfolio =>
               /\ Len(portfolio'.transactions) = Len(pf.transactions) + Cardinality(decided)
               /\ saveCount' = saveCount + 1
               /\ nextId' = nextId + Cardinality(decided)]_vars

\* a BUY order that did not meet its condition at the pre-tick price (the one
\* still rendered) has been filled by the tick that brought the price down
C17_Witness ==
  /\ Len(portfolio.openOrders) = 0
  /\ \E i \in Ids : fillCount[i] = 1
  /\ Len(portfolio.transactions) > 0
  /\ LET t == portfolio.transactions[Len(portfolio.transactions)]
     IN /\ t.orderType = "LIMIT"
        /\ t.type = "BUY"
        /\ t.price < rendered.assets[t.assetId]
        /\ t.price >= assets[t.assetId]

\* ---- guest mode ---------------------------------------------------------
\* C19: in guest mode (authentication yields no account, user is null) the
\* core still functions: a valid market or limit trade request is applied to
\* the in-memory ledger, open limit orders are matched on ticks, and no
\* persistence call is made.
C19_GuestModeTrades ==
  [][\A mode \in Sides, q \in Qtys, ot \in OrderTypes :
       \A lp \in LimitInputs(ot) :
         (/\ user = NoUser
          /\ ~authPending
          /\ SubmitError(rendered.portfolio, rendered.assets[selectedAssetId],
                         selectedAssetId, mode, q, ot, lp) = NoError
          /\ handleSubmit(mode, q, ot, lp))
           => /\ portfolio' # portfolio
              /\ saveCount' = saveCount]_vars

\* ---- C16 ----------------------------------------------------------------
\* C16: every asset's price history always holds exactly HISTORY_POINTS points,
\* the last of them the current price, and every tick drops the oldest point
\* and appends the new price at the end, so that the history is the
\* HISTORY_POINTS most recent points, oldest first.
C16_RollingHistory ==
  /\ [](\A a \in AssetIds : /\ Len(history[a]) = HISTORY_POINTS
                            /\ history[a][HISTORY_POINTS] = assets[a])
  /\ [][TickStep => \A a \in AssetIds :
                      history'[a] = Append(Tail(history[a]), assets'[a])]_vars

\* two ticks have replaced both initial points of TOM: 10.30 came first, 10.50 last
C16_Witness ==
  /\ history["TOM"][1] = 1030
  /\ history["TOM"][HISTORY_POINTS] = 1050
  /\ assets["TOM"] = 1050

\* ---- C18 ----------------------------------------------------------------
\* C18: at most one tick timer is active at any time, a timer whose effect has
\* been torn down is no longer active (only active timers fire), and no timer
\* is left once the component is unmounted.
C18_ClockStoppable ==
  /\ Cardinality(timers) <= 1
  /\ timers \cap tornDown = {}
  /\ (~mounted => timers = {})

\* the guest timer was released when the user signed in, the user's timer at unmount
C18_Witness ==
  /\ ~mounted
  /\ tornDown = {NoUser, Uid}
  /\ timers = {}

C22_CancelAbsentIsNoOp ==
  [][\A orderId \in Ids :
       (/\ FindIndex(portfolio.openOrders, orderId) = 0
        /\ handleCancelOrder(orderId))
         => UNCHANGED <<portfolio, saveCount, lastSave>>]_vars

\* ---- C23 ----------------------------------------------------------------
\* the step commits a ledger: a request handler took an id or cancelled an
\* order, or a matching pass filled one
Commits ==
  \/ nextId' # nextId
  \/ fillCount' # fillCount
  \/ cancelCount' # cancelCount

\* C23: every commit made by handleTrade, by handleCancelOrder or by a matching
\* pass that filled an order issues exactly one save, and that save carries
\* the ledger just committed; a matching pass that fills no order commits
\* nothing and issues no save.
C23_CommitThenOneSave ==
  [][mounted' =>
       /\ (Commits \/ portfolio' # portfolio) =>
            /\ saveCount' = saveCount + 1
            /\ lastSave' = portfolio'
            /\ saveStatus' = "pending"
       /\ (TickStep /\ fillCount' = fillCount) =>
            UNCHANGED <<portfolio, saveCount, lastSave>>
       /\ saveCount' # saveCount => Commits]_vars

\* a trade, then a pass that filled an order: two commits, two saves, the
\* latest carrying the committed ledger
C23_Witness ==
  /\ saveCount = 2
  /\ fillCount[1] = 1
  /\ Len(portfolio.transactions) = 1
  /\ lastSave = portfolio
  /\ saveStatus = "pending"

\* ---- C21 ----------------------------------------------------------------
\* C21: after the merge of a snapshot in which transactions, openOrders,
\* holdings or cashBalance is missing, every field of the in-memory ledger is
\* defined: a missing transactions or openOrders is the empty sequence, a
\* missing holdings or cashBalance is the default value, and a field present
\* in the snapshot is taken as delivered.
C21_SnapshotMergedWithDefaults ==
  /\ [](DOMAIN portfolio = Fields)
  /\ [][\A data \in Snapshots :
          onSnapshot(TRUE, data) =>
            /\ \A f \in DOMAIN data : portfolio'[f] = data[f]
            /\ \A f \in {"transactions", "openOrders"} \ DOMAIN data :
                 portfolio'[f] = <<>>
            /\ "holdings" \notin DOMAIN data =>
                 portfolio'.holdings = [a \in AssetIds |-> [quantity |-> 0, avgCost |-> 0]]
            /\ "cashBalance" \notin DOMAIN data =>
                 portfolio'.cashBalance = INITIAL_CASH]_vars

\* a snapshot with cashBalance and openOrders but without holdings and
\* transactions has been merged and rendered
C21_Witness ==
  /\ portfolio.cashBalance = 500000
  /\ Len(portfolio.openOrders) = 1
  /\ portfolio.transactions = <<>>
  /\ portfolio.holdings["TOM"].quantity = 0
  /\ rendered.portfolio = portfolio

\* ---- C24 ----------------------------------------------------------------
\* the order at index i of orders is the only BUY order of its asset that
\* meets its condition at these prices
OnlyBuyMet(orders, i, prices) ==
  /\ orders[i].type = "BUY"
  /\ Meets(orders[i], prices)
  /\ \A j \in 1..Len(orders) :
       (j # i /\ orders[j].assetId = orders[i].assetId /\ orders[j].type = "BUY")
         => ~Meets(orders[j], prices)

\* C24: a buy executed while the holding's quantity is 0 (a market BUY, or the
\* fill of a limit BUY) sets avgCost to exactly the execution price of that
\* buy, whatever avgCost the holding had.
C24_BuyFromZeroSetsPrice ==
  [][/\ \A q \in LargeQtys \cup Qtys :
          (/\ rendered.portfolio.holdings[selectedAssetId].quantity = 0
           /\ MarketAccepted("BUY", q))
            => portfolio'.holdings[selectedAssetId].avgCost
                 = rendered.assets[selectedAssetId]
     /\ (portfolio' # portfolio /\ TickStep) =>
          \A i \in 1..Len(portfolioRef.openOrders) :
            LET o == portfolioRef.openOrders[i]
            IN (/\ OnlyBuyMet(portfolioRef.openOrders, i, assets')
                /\ portfolioRef.holdings[o.assetId].quantity = 0)
                 => portfolio'.holdings[o.assetId].avgCost = o.targetPrice]_vars

\* ---- C25 ----
\* the save handleTrade awaits settles in this step: the latest save leaves
\* "pending", or the overtaken one is answered
AwaitedSaveSettles ==
  /\ mounted'
  /\ \/ tradeAwaits = "latest" /\ saveStatus = "pending" /\ saveStatus' # "pending"
     \/ tradeAwaits = "earlier" /\ saveCount' = saveCount /\ tradeAwaits' # "earlier"

====
